---- MODULE Spec2Model ----
(***************************************************************************)
(* Model of final2.py: the R307 fingerprint sensor packet codec, the       *)
(* streaming bridge stream_upimage_to_http, the finger helpers and the two *)
(* capture modes detect_mode and cls_mode with the console command loop.   *)
(*                                                                         *)
(* Bytes are naturals in 0..255 and byte strings are sequences of them.    *)
(* Time is kept as the milliseconds elapsed since the timer a loop reads   *)
(* (ticks_diff(ticks_ms(), t0)); it advances by the sleep_ms of the loop.  *)
(***************************************************************************)
EXTENDS Integers, Sequences, FiniteSets, TLC

VARIABLES
    pc,          \* position of the single thread of control
    mode,        \* "none", "detect" or "cls": the mode function that is running
    person_id,   \* detect_mode local
    collected,   \* detect_mode local
    cls_counter, \* module global
    pending,     \* the console line waiting on sys.stdin, or NoLine
    idle_ms,     \* ensure_idle: ms since `start`, or -1 when start is None
    lift_ms,     \* wait_for_lift: ms since t0
    sock,        \* the mode's local `sock`: "None" or "socket"
    socks,       \* number of sockets created and not closed
    req,         \* the request sent by the last http_post_start of the session
    tx,          \* bytes of the last packet _write_packet wrote to the UART
    rx,          \* bytes received on the UART and not read yet
    sensor,      \* sensor side of a download: "idle", "ack", "data", "done"
    dl,          \* what the sensor has sent for the current download
    sent,        \* stream_upimage_to_http local
    sink,        \* body bytes accepted by sock.send for the current request
    exc,         \* the exception in flight between its raise and the except clause
    failed,      \* the cycle went through the except clause
    res,         \* value the last mode call returned to the command loop
    lastCmd,     \* value read_cmd_nb returned in the program's last step ("None" if not called)
    cycles,      \* number of finger placements seen by wait_for_finger
    evt,         \* I/O calls of the program's last step, in order
    cycEvts,     \* tracked kinds of events since the current wait_for_finger began
    trail,       \* the sensor and socket calls of the cycle, in order, repeats dropped
    unflushed,   \* a transfer failed and flush_uart has not run since
    sess,        \* bookkeeping over the requests of the running session
    tags,        \* bookkeeping over the test_img_<n> tags of the whole run
    codec        \* harness state of the codec specification

orchVars == <<pc, mode, person_id, collected, cls_counter, pending, idle_ms,
              lift_ms, sock, socks, req, tx, rx, sensor, dl, sent, sink,
              exc, failed, res, lastCmd, cycles, evt, cycEvts, trail,
              unflushed, sess, tags>>

vars == <<orchVars, codec>>

----------------------------------------------------------------------------
(* Configuration constants of final2.py *)

W == 256
H == 288
PACKED_LEN == (W * H) \div 2
\* 0xFFFFFFFF; a 32-bit address is kept as its two 16-bit halves, high first
SENSOR_ADDRESS == <<65535, 65535>>
SAMPLES_PER_PERSON == 3
QUIET_MS == 800
STARTCODE == 61185
PACKET_COMMAND == 1
PACKET_ACK == 7
PACKET_DATA == 2
PACKET_DATA_END == 8
CMD_DOWNLOADIMAGE == 10

(* The delays and timeouts that the timers of the finger helpers read *)
IDLE_SLEEP_ABSENT == 120
LIFT_TIMEOUT_MS == 7000
LIFT_SLEEP_MS == 150

(* Bounds of the model *)
MaxPayloadLen == 2
MaxFrames == 4
MaxCycles == 4

----------------------------------------------------------------------------
(* Packet codec *)

\* sum(bytes), added up by halves
RECURSIVE SumRange(_, _, _)
SumRange(s, lo, hi) ==
    IF lo > hi THEN 0
    ELSE IF lo = hi THEN s[lo]
    ELSE LET mid == (lo + hi) \div 2 IN SumRange(s, lo, mid) + SumRange(s, mid + 1, hi)

Sum(s) == SumRange(s, 1, Len(s))

\* _be16(n): bytes([(n>>8)&0xFF, n&0xFF])
Be16(n) == << (n \div 256) % 256, n % 256 >>

\* address.to_bytes(4, 'big')
ToBytes4(a) == Be16(a[1]) \o Be16(a[2])

\* as _write_packet, the checksum summed without the two length bytes
WritePacket_ChecksumSkipsLength(address, ptype, payload_bytes) ==
    LET plen == Len(payload_bytes) + 2
        hdr  == Be16(STARTCODE) \o ToBytes4(address) \o <<ptype>> \o Be16(plen)
        cs   == (ptype + Sum(payload_bytes)) % 65536
    IN  hdr \o payload_bytes \o Be16(cs)

\* the bytes _write_packet hands to uart.write
WritePacket(address, ptype, payload_bytes) ==
    LET plen == Len(payload_bytes) + 2
        hdr  == Be16(STARTCODE) \o ToBytes4(address) \o <<ptype>> \o Be16(plen)
        cs   == (ptype + hdr[8] + hdr[9] + Sum(payload_bytes)) % 65536
    IN  hdr \o payload_bytes \o Be16(cs)

\* _read_exact on a receive buffer that gets no more bytes before the
\* timeout: n bytes when they are there, otherwise None with the bytes
\* read so far dropped.
ReadExact(buf, n) ==
    IF Len(buf) >= n
    THEN [none |-> FALSE, data |-> SubSeq(buf, 1, n), rest |-> SubSeq(buf, n + 1, Len(buf))]
    ELSE [none |-> TRUE, data |-> <<>>, rest |-> <<>>]

\* rest[:-2]
DropLast2(s) == IF Len(s) <= 2 THEN <<>> ELSE SubSeq(s, 1, Len(s) - 2)

Failure(msg, buf) == [err |-> msg, ptype |-> -1, payload |-> <<>>, rest |-> buf]

\* as _read_packet, comparing only the low byte of the checksum
ReadPacket_LowByteOnly(buf) ==
    LET h == ReadExact(buf, 9) IN
    IF h.none \/ h.data = <<>> THEN Failure("timeout header", h.rest)
    ELSE LET hdr == h.data IN
    IF hdr[1] # STARTCODE \div 256 \/ hdr[2] # STARTCODE % 256
    THEN Failure("bad startcode", h.rest)
    ELSE LET ptype == hdr[7]
             plen  == hdr[8] * 256 + hdr[9]
             r     == ReadExact(h.rest, plen)
         IN
    IF r.none \/ r.data = <<>> THEN Failure("timeout body", r.rest)
    ELSE LET rest    == r.data
             payload == DropLast2(rest)
         IN
    IF Len(rest) < 2 THEN Failure("IndexError", r.rest)
    ELSE LET rxcs == rest[Len(rest) - 1] * 256 + rest[Len(rest)]
             calc == (ptype + hdr[8] + hdr[9] + Sum(payload)) % 65536
         IN
    IF rxcs % 256 # calc % 256 THEN Failure("bad checksum", r.rest)
    ELSE [err |-> "none", ptype |-> ptype, payload |-> payload, rest |-> r.rest]

\* as _read_packet, testing only the first byte of the start code
ReadPacket_HalfMarker(buf) ==
    LET h == ReadExact(buf, 9) IN
    IF h.none \/ h.data = <<>> THEN Failure("timeout header", h.rest)
    ELSE LET hdr == h.data IN
    IF hdr[1] # STARTCODE \div 256
    THEN Failure("bad startcode", h.rest)
    ELSE LET ptype == hdr[7]
             plen  == hdr[8] * 256 + hdr[9]
             r     == ReadExact(h.rest, plen)
         IN
    IF r.none \/ r.data = <<>> THEN Failure("timeout body", r.rest)
    ELSE LET rest    == r.data
             payload == DropLast2(rest)
         IN
    IF Len(rest) < 2 THEN Failure("IndexError", r.rest)
    ELSE LET rxcs == rest[Len(rest) - 1] * 256 + rest[Len(rest)]
             calc == (ptype + hdr[8] + hdr[9] + Sum(payload)) % 65536
         IN
    IF rxcs # calc THEN Failure("bad checksum", r.rest)
    ELSE [err |-> "none", ptype |-> ptype, payload |-> payload, rest |-> r.rest]

\* _read_packet: err is "none" on return, else the exception raised
ReadPacket(buf) ==
    LET h == ReadExact(buf, 9) IN
    IF h.none \/ h.data = <<>> THEN Failure("timeout header", h.rest)
    ELSE LET hdr == h.data IN
    IF hdr[1] # STARTCODE \div 256 \/ hdr[2] # STARTCODE % 256
    THEN Failure("bad startcode", h.rest)
    ELSE LET ptype == hdr[7]
             plen  == hdr[8] * 256 + hdr[9]
             r     == ReadExact(h.rest, plen)
         IN
    IF r.none \/ r.data = <<>> THEN Failure("timeout body", r.rest)
    ELSE LET rest    == r.data
             payload == DropLast2(rest)
         IN
    IF Len(rest) < 2 THEN Failure("IndexError", r.rest)
    ELSE LET rxcs == rest[Len(rest) - 1] * 256 + rest[Len(rest)]
             calc == (ptype + hdr[8] + hdr[9] + Sum(payload)) % 65536
         IN
    IF rxcs # calc THEN Failure("bad checksum", r.rest)
    ELSE [err |-> "none", ptype |-> ptype, payload |-> payload, rest |-> r.rest]

\* _read_packet can finish without waiting for bytes that are not there yet
PacketReady(buf) ==
    /\ Len(buf) >= 9
    /\ \/ buf[1] # STARTCODE \div 256
       \/ buf[2] # STARTCODE % 256
       \/ Len(buf) >= 9 + buf[8] * 256 + buf[9]

----------------------------------------------------------------------------
(* Console lines *)

NoLine == "<no line>"
Lines == {"Stop ", "quit", "exit", "detect", "cls", " 7 "}
Abort == {"stop", "quit", "exit"}

\* line.strip().lower()
StripLower(line) == IF line = "Stop " THEN "stop" ELSE line

\* int(line.strip()) succeeds
IsInt(line) == line \in {" 7 "}
IntOf(line) == IF line = " 7 " THEN 7 ELSE -1

\* read_cmd_nb: the command read (or "None") and what stays on stdin
ReadCmdNb(pend) ==
    IF pend = NoLine THEN [c |-> "None", pending |-> NoLine]
    ELSE [c |-> StripLower(pend), pending |-> NoLine]

----------------------------------------------------------------------------
(* Requests.  A header value that the code formats from an integer is kept *)
(* as that integer, and a formatted name as the tuple of its parts.        *)

NoReq == [path |-> "none", clen |-> 0, headers |-> <<>>]

DetectHeaders(pid, n) ==
    [k \in {"X-Format", "X-Width", "X-Height", "X-Person-Id", "X-Mode", "X-Filename"} |->
        CASE k = "X-Format"    -> <<"packed4">>
          [] k = "X-Width"     -> <<W>>
          [] k = "X-Height"    -> <<H>>
          [] k = "X-Person-Id" -> <<pid>>
          [] k = "X-Mode"      -> <<"detect">>
          [] k = "X-Filename"  -> <<pid, n + 1>>]

\* as the headers of cls_mode, with the X-Person-Id line of detect_mode left in
ClsHeaders_WithPersonId(n) ==
    [k \in {"X-Format", "X-Width", "X-Height", "X-Person-Id", "X-Mode", "X-Filename"} |->
        CASE k = "X-Format"    -> <<"packed4">>
          [] k = "X-Width"     -> <<W>>
          [] k = "X-Height"    -> <<H>>
          [] k = "X-Person-Id" -> <<n>>
          [] k = "X-Mode"      -> <<"cls">>
          [] k = "X-Filename"  -> <<"test_img", n>>]

ClsHeaders(n) ==
    [k \in {"X-Format", "X-Width", "X-Height", "X-Mode", "X-Filename"} |->
        CASE k = "X-Format"    -> <<"packed4">>
          [] k = "X-Width"     -> <<W>>
          [] k = "X-Height"    -> <<H>>
          [] k = "X-Mode"      -> <<"cls">>
          [] k = "X-Filename"  -> <<"test_img", n>>]

\* the request http_post_start writes: request line, Content-Length, headers
HttpRequest(body_len, headers_dict) ==
    [path |-> "/upload-image", clen |-> body_len, headers |-> headers_dict]

NoExc == [msg |-> "none", code |-> -1]
Exc(m, c) == [msg |-> m, code |-> c]

\* requests opened, transfers completed, and whether a cycle failed
\* ok: the numbers n of the cls requests whose transfer succeeded, in order;
\* last: the number in the most recent cls request (0 before the first);
\* lastOk: that request's transfer has succeeded
NoTags == [ok |-> <<>>, last |-> 0, lastOk |-> FALSE]

NewSess(m) == [mode |-> m, nreq |-> 0, nok |-> 0, anyfail |-> FALSE]

----------------------------------------------------------------------------
(* The download as the sensor sent it: the number of frames, the first     *)
(* frame, and the image bytes of the transfer, that is the payloads of the *)
(* well-formed DATA frames up to the first DATA_END that follow a          *)
(* well-formed ACK with confirmation code 0.                               *)

NoFrame == [ptype |-> -1, payload |-> <<>>, valid |-> FALSE]
NoDl == [n |-> 0, first |-> NoFrame, proto |-> "start", image |-> <<>>]

DlAfter(d, f) ==
    [n     |-> d.n + 1,
     first |-> IF d.n = 0 THEN f ELSE d.first,
     proto |-> CASE d.proto = "start" ->
                      IF f.valid /\ f.ptype = PACKET_ACK /\ f.payload # <<>> /\ f.payload[1] = 0
                      THEN "acked" ELSE "broken"
                 [] d.proto = "acked" ->
                      IF ~f.valid \/ f.ptype \notin {PACKET_DATA, PACKET_DATA_END} THEN "broken"
                      ELSE IF f.ptype = PACKET_DATA_END THEN "ended" ELSE "acked"
                 [] OTHER -> d.proto,
     image |-> IF d.proto = "acked" /\ f.valid /\ f.ptype \in {PACKET_DATA, PACKET_DATA_END}
               THEN d.image \o f.payload ELSE d.image]

----------------------------------------------------------------------------
(* State after boot: the command loop waits for a line *)

OrchInit ==
    /\ pc = "main"
    /\ mode = "none"
    /\ person_id = -1
    /\ collected = 0
    /\ cls_counter = 1
    /\ pending = NoLine
    /\ idle_ms = -1
    /\ lift_ms = 0
    /\ sock = "None"
    /\ socks = 0
    /\ req = NoReq
    /\ tx = <<>>
    /\ rx = <<>>
    /\ sensor = "idle"
    /\ dl = NoDl
    /\ sent = 0
    /\ sink = <<>>
    /\ exc = NoExc
    /\ failed = FALSE
    /\ res = "None"
    /\ lastCmd = "None"
    /\ cycles = 0
    /\ evt = <<>>
    /\ cycEvts = {}
    /\ trail = <<>>
    /\ unflushed = FALSE
    /\ sess = NewSess("none")
    /\ tags = NoTags

CodecOff == [phase |-> "off", address |-> <<0, 0>>, ptype |-> 0, payload |-> <<>>,
             wire |-> <<>>, out |-> Failure("none", <<>>)]

Init == OrchInit /\ codec = CodecOff

Tracked == {"socket", "open", "download", "end_flush"}
Kinds(events) == {events[i] : i \in 1..Len(events)} \cap Tracked

\* the calls kept in trail: an absent probe, flush_uart, usocket.socket(),
\* the request sent, the download command written, sock.close()
TrailKinds == {"probe-", "flush", "socket", "open", "download", "close"}

\* trail with the kept calls of events appended, a call that repeats the
\* last one kept dropped
RECURSIVE Extend(_, _)
Extend(t, events) ==
    IF events = <<>> THEN t
    ELSE LET e == Head(events)
             keep == e \in TrailKinds /\ (t = <<>> \/ t[Len(t)] # e)
         IN  Extend(IF keep THEN Append(t, e) ELSE t, Tail(events))

----------------------------------------------------------------------------
(* Helpers shared by the actions *)

\* a mode function returns c to the command loop, which breaks on quit/exit
ModeReturn(c) ==
    /\ res' = c
    /\ mode' = "none"
    /\ pc' = IF c \in {"quit", "exit"} THEN "halt" ELSE "main"
    /\ person_id' = -1
    /\ collected' = 0
    /\ idle_ms' = -1
    /\ lift_ms' = 0
    /\ sock' = "None"
    /\ exc' = NoExc
    /\ failed' = FALSE
    /\ trail' = <<>>

\* top of a mode's loop body: wait_for_finger begins with ensure_idle
BeginCycle ==
    /\ pc' = "wff_idle"
    /\ idle_ms' = -1
    /\ lift_ms' = 0
    /\ sock' = "None"
    /\ exc' = NoExc
    /\ failed' = FALSE
    /\ cycEvts' = {}
    /\ trail' = <<>>

\* an exception leaves the try block of the mode
Raise(e) ==
    /\ exc' = e
    /\ pc' = "except"

\* the I/O of a step that does not call read_cmd_nb
Did(events) ==
    /\ evt' = events
    /\ cycEvts' = cycEvts \cup Kinds(events)
    /\ trail' = Extend(trail, events)
    /\ lastCmd' = "None"

----------------------------------------------------------------------------
(* Environment *)

\* a line is typed on the console
TypeLine ==
    /\ pc # "halt"
    /\ pending = NoLine
    /\ \E l \in Lines : pending' = l
    /\ UNCHANGED <<pc, mode, person_id, collected, cls_counter, idle_ms,
                 lift_ms, sock, socks, req, tx, rx, sensor, dl, sent, sink,
                 exc, failed, res, lastCmd, cycles, evt, cycEvts, trail,
                 unflushed, sess, tags, codec>>

SensorChunk == <<17, 34>>

\* the sensor answers a download command: an ACK with its confirmation
\* code, then DATA frames closed by a DATA_END frame.  It sends while the
\* bridge is reading and has no whole packet left to read.
SensorSend ==
    /\ pc \in {"stream_ack", "stream_data", "except"}
    /\ sensor \in {"ack", "data"}
    /\ dl.n < MaxFrames
    /\ ~PacketReady(rx)
    /\ \/ /\ sensor = "ack"
          /\ \E code \in {0, 1} :
                /\ rx' = rx \o WritePacket(SENSOR_ADDRESS, PACKET_ACK, <<code>>)
                /\ dl' = DlAfter(dl, [ptype |-> PACKET_ACK, payload |-> <<code>>, valid |-> TRUE])
                /\ sensor' = IF code = 0 THEN "data" ELSE "done"
       \/ /\ sensor = "data"
          /\ \E t \in {PACKET_DATA, PACKET_DATA_END} :
                /\ rx' = rx \o WritePacket(SENSOR_ADDRESS, t, SensorChunk)
                /\ dl' = DlAfter(dl, [ptype |-> t, payload |-> SensorChunk, valid |-> TRUE])
                /\ sensor' = IF t = PACKET_DATA_END THEN "done" ELSE "data"
    /\ UNCHANGED <<pc, mode, person_id, collected, cls_counter, pending,
                 idle_ms, lift_ms, sock, socks, req, tx, sent, sink, exc,
                 failed, res, lastCmd, cycles, evt, cycEvts, trail,
                 unflushed, sess, tags, codec>>

----------------------------------------------------------------------------
(* Command loop *)

\* as the command loop, with cls_counter set back to 1 each time cls is entered
MainInput_ResetsCounter ==
    /\ pc = "main"
    /\ pending # NoLine
    /\ pending' = NoLine
    /\ evt' = <<"input">>
    /\ lastCmd' = "None"
    /\ LET cmd == StripLower(pending) IN
       CASE cmd \in {"quit", "exit"} ->
              /\ pc' = "halt"
              /\ UNCHANGED <<mode, idle_ms, cycEvts, trail, sess, res, cls_counter>>
         [] cmd = "detect" ->
              /\ pc' = "ask_pid"
              /\ mode' = "detect"
              /\ sess' = NewSess("detect")
              /\ res' = "None"
              /\ UNCHANGED <<idle_ms, cycEvts, trail, cls_counter>>
         [] cmd = "cls" ->
              /\ pc' = "wff_idle"
              /\ mode' = "cls"
              /\ sess' = NewSess("cls")
              /\ cls_counter' = 1
              /\ res' = "None"
              /\ idle_ms' = -1
              /\ cycEvts' = {}
              /\ trail' = <<>>
         [] OTHER ->
              /\ UNCHANGED <<pc, mode, idle_ms, cycEvts, trail, sess, res, cls_counter>>
    /\ UNCHANGED <<person_id, collected, lift_ms, sock, socks, req, tx, rx,
                 sensor, dl, sent, sink, exc, failed, cycles, unflushed,
                 tags, codec>>

\* cmd = input(">> ").strip().lower() and its dispatch
MainInput ==
    /\ pc = "main"
    /\ pending # NoLine
    /\ pending' = NoLine
    /\ evt' = <<"input">>
    /\ lastCmd' = "None"
    /\ LET cmd == StripLower(pending) IN
       CASE cmd \in {"quit", "exit"} ->
              /\ pc' = "halt"
              /\ UNCHANGED <<mode, idle_ms, cycEvts, trail, sess, res>>
         [] cmd = "detect" ->
              /\ pc' = "ask_pid"
              /\ mode' = "detect"
              /\ sess' = NewSess("detect")
              /\ res' = "None"
              /\ UNCHANGED <<idle_ms, cycEvts, trail>>
         [] cmd = "cls" ->
              /\ pc' = "wff_idle"
              /\ mode' = "cls"
              /\ sess' = NewSess("cls")
              /\ res' = "None"
              /\ idle_ms' = -1
              /\ cycEvts' = {}
              /\ trail' = <<>>
         [] OTHER ->
              /\ UNCHANGED <<pc, mode, idle_ms, cycEvts, trail, sess, res>>
    /\ UNCHANGED <<person_id, collected, cls_counter, lift_ms, sock, socks,
                 req, tx, rx, sensor, dl, sent, sink, exc, failed, cycles,
                 unflushed, tags, codec>>

\* ask_person_id, then collected = 0 and the first test of the while
AskPersonId ==
    /\ pc = "ask_pid"
    /\ pending # NoLine
    /\ pending' = NoLine
    /\ evt' = <<"input">>
    /\ lastCmd' = "None"
    /\ IF IsInt(pending)
       THEN /\ person_id' = IntOf(pending)
            /\ collected' = 0
            /\ pc' = "wff_idle"
            /\ idle_ms' = -1
            /\ cycEvts' = {}
            /\ trail' = <<>>
       ELSE UNCHANGED <<person_id, collected, pc, idle_ms, cycEvts, trail>>
    /\ UNCHANGED <<mode, cls_counter, lift_ms, sock, socks, req, tx, rx,
                 sensor, dl, sent, sink, exc, failed, res, cycles, unflushed,
                 sess, tags, codec>>

----------------------------------------------------------------------------
(* Finger helpers.  f.readImage() is the presence probe; its result is the *)
(* environment's choice.                                                   *)

\* as ensure_idle, the quiet time running whatever the probe reports
EnsureIdleStep_AnyProbe ==
    /\ pc \in {"wff_idle", "post_idle"}
    /\ \E present \in BOOLEAN :
          IF present
          THEN LET diff == IF idle_ms = -1 THEN 0 ELSE idle_ms IN
               /\ Did(<<"probe+">>)
               /\ IF diff >= QUIET_MS
                  THEN /\ idle_ms' = -1
                       /\ pc' = IF pc = "wff_idle" THEN "wff_poll" ELSE "post_flush"
                  ELSE /\ idle_ms' = diff + IDLE_SLEEP_ABSENT
                       /\ pc' = pc
          ELSE LET diff == IF idle_ms = -1 THEN 0 ELSE idle_ms IN
               /\ Did(<<"probe-">>)
               /\ IF diff >= QUIET_MS
                  THEN /\ idle_ms' = -1
                       /\ pc' = IF pc = "wff_idle" THEN "wff_poll" ELSE "post_flush"
                  ELSE /\ idle_ms' = diff + IDLE_SLEEP_ABSENT
                       /\ pc' = pc
    /\ UNCHANGED <<mode, person_id, collected, cls_counter, pending, lift_ms,
                 sock, socks, req, tx, rx, sensor, dl, sent, sink, exc,
                 failed, res, cycles, unflushed, sess, tags, codec>>

\* one iteration of the while True of ensure_idle
EnsureIdleStep ==
    /\ pc \in {"wff_idle", "post_idle"}
    /\ \E present \in BOOLEAN :
          IF present
          THEN /\ idle_ms' = -1
               /\ pc' = pc
               /\ Did(<<"probe+">>)
          ELSE LET diff == IF idle_ms = -1 THEN 0 ELSE idle_ms IN
               /\ Did(<<"probe-">>)
               /\ IF diff >= QUIET_MS
                  THEN /\ idle_ms' = -1
                       /\ pc' = IF pc = "wff_idle" THEN "wff_poll" ELSE "post_flush"
                  ELSE /\ idle_ms' = diff + IDLE_SLEEP_ABSENT
                       /\ pc' = pc
    /\ UNCHANGED <<mode, person_id, collected, cls_counter, pending, lift_ms,
                 sock, socks, req, tx, rx, sensor, dl, sent, sink, exc,
                 failed, res, cycles, unflushed, sess, tags, codec>>

\* as wait_for_finger, with the abort status not acted on by the mode
WaitFingerStep_IgnoresAbort ==
    /\ pc = "wff_poll"
    /\ \E present \in BOOLEAN :
          IF present
          THEN /\ cycles < MaxCycles
               /\ cycles' = cycles + 1
               /\ pc' = "pre_flush"
               /\ Did(<<"probe+">>)
               /\ UNCHANGED <<pending, res, mode, person_id, collected,
                              idle_ms, lift_ms, sock, exc, failed>>
          ELSE LET r == ReadCmdNb(pending) IN
               /\ pending' = r.pending
               /\ lastCmd' = r.c
               /\ evt' = <<"probe-", "poll">>
               /\ UNCHANGED <<cycles, cycEvts>>
               /\ pc' = IF r.c \in Abort THEN "pre_flush" ELSE pc
               /\ trail' = Extend(trail, evt')
               /\ UNCHANGED <<res, mode, person_id, collected, idle_ms,
                              lift_ms, sock, exc, failed>>
    /\ UNCHANGED <<cls_counter, socks, req, tx, rx, sensor, dl, sent, sink,
                 unflushed, sess, tags, codec>>

\* one iteration of the while of wait_for_finger (poll_cmd is read_cmd_nb),
\* with the mode's test of the returned status
WaitFingerStep ==
    /\ pc = "wff_poll"
    /\ \E present \in BOOLEAN :
          IF present
          THEN /\ cycles < MaxCycles
               /\ cycles' = cycles + 1
               /\ pc' = "pre_flush"
               /\ Did(<<"probe+">>)
               /\ UNCHANGED <<pending, res, mode, person_id, collected,
                              idle_ms, lift_ms, sock, exc, failed>>
          ELSE LET r == ReadCmdNb(pending) IN
               /\ pending' = r.pending
               /\ lastCmd' = r.c
               /\ evt' = <<"probe-", "poll">>
               /\ UNCHANGED <<cycles, cycEvts>>
               /\ IF r.c \in Abort
                  THEN ModeReturn(r.c)
                  ELSE /\ trail' = Extend(trail, evt')
                       /\ UNCHANGED <<pc, res, mode, person_id, collected, idle_ms,
                                      lift_ms, sock, exc, failed>>
    /\ UNCHANGED <<cls_counter, socks, req, tx, rx, sensor, dl, sent, sink,
                 unflushed, sess, tags, codec>>

\* as wait_for_lift, sampling read_cmd_nb in its loop the way wait_for_finger does
WaitLiftStep_Polls ==
    /\ pc = "lift"
    /\ \E present \in BOOLEAN :
          IF ~present
          THEN /\ Did(<<"probe-">>)
               /\ pending' = pending
               /\ pc' = "post_idle"
               /\ lift_ms' = 0
          ELSE /\ evt' = <<"probe+", "poll">>
               /\ cycEvts' = cycEvts
               /\ trail' = trail
               /\ lastCmd' = ReadCmdNb(pending).c
               /\ pending' = ReadCmdNb(pending).pending
               /\ IF lift_ms > LIFT_TIMEOUT_MS
                  THEN /\ pc' = "post_idle"
                       /\ lift_ms' = 0
                  ELSE /\ pc' = pc
                       /\ lift_ms' = lift_ms + LIFT_SLEEP_MS
    /\ idle_ms' = -1
    /\ UNCHANGED <<mode, person_id, collected, cls_counter, sock, socks, req,
                 tx, rx, sensor, dl, sent, sink, exc, failed, res, cycles,
                 unflushed, sess, tags, codec>>

\* one iteration of the while True of wait_for_lift
WaitLiftStep ==
    /\ pc = "lift"
    /\ \E present \in BOOLEAN :
          IF ~present
          THEN /\ Did(<<"probe-">>)
               /\ pc' = "post_idle"
               /\ lift_ms' = 0
          ELSE /\ Did(<<"probe+">>)
               /\ IF lift_ms > LIFT_TIMEOUT_MS
                  THEN /\ pc' = "post_idle"
                       /\ lift_ms' = 0
                  ELSE /\ pc' = pc
                       /\ lift_ms' = lift_ms + LIFT_SLEEP_MS
    /\ idle_ms' = -1
    /\ UNCHANGED <<mode, person_id, collected, cls_counter, pending, sock,
                 socks, req, tx, rx, sensor, dl, sent, sink, exc, failed,
                 res, cycles, unflushed, sess, tags, codec>>

\* flush_uart(uart): every unread byte is dropped
FlushUart ==
    /\ rx' = <<>>
    /\ unflushed' = FALSE

\* flush_uart before the request is built (the line after wait_for_finger)
PreFlush ==
    /\ pc = "pre_flush"
    /\ FlushUart
    /\ Did(<<"flush">>)
    /\ pc' = "open"
    /\ UNCHANGED <<mode, person_id, collected, cls_counter, pending, idle_ms,
                 lift_ms, sock, socks, req, tx, sensor, dl, sent, sink, exc,
                 failed, res, cycles, sess, tags, codec>>

\* gc.collect(); ensure_idle(f); flush_uart(uart) -- the flush that ends a cycle
PostFlush ==
    /\ pc = "post_flush"
    /\ FlushUart
    /\ Did(<<"flush", "end_flush">>)
    /\ pc' = "checkpoint"
    /\ UNCHANGED <<mode, person_id, collected, cls_counter, pending, idle_ms,
                 lift_ms, sock, socks, req, tx, sensor, dl, sent, sink, exc,
                 failed, res, cycles, sess, tags, codec>>

----------------------------------------------------------------------------
(* HTTP request and the streaming bridge *)

\* the headers dict the running mode builds for this placement
Headers ==
    IF mode = "detect" THEN DetectHeaders(person_id, collected)
    ELSE ClsHeaders(cls_counter)

\* sock = None; try: sock = http_post_start(HOST, PORT, PATH, PACKED_LEN, headers)
\* outcome names the call that raises: usocket.socket() itself, or one of
\* getaddrinfo / connect / send after the socket exists
HttpPostStart ==
    /\ pc = "open"
    /\ \E outcome \in {"ok", "socket", "connect"} :
          CASE outcome = "ok" ->
                 /\ socks' = socks + 1
                 /\ sock' = "socket"
                 /\ req' = HttpRequest(PACKED_LEN, Headers)
                 /\ sess' = [sess EXCEPT !.nreq = @ + 1]
                 /\ tags' = IF mode = "cls"
                            THEN [tags EXCEPT !.last = cls_counter, !.lastOk = FALSE]
                            ELSE tags
                 /\ pc' = "stream_cmd"
                 /\ exc' = NoExc
                 /\ Did(<<"http_post_start", "socket", "connect", "open">>)
            [] outcome = "socket" ->
                 /\ Raise(Exc("OSError", -1))
                 /\ Did(<<"http_post_start">>)
                 /\ UNCHANGED <<socks, sock, req, sess, tags>>
            [] outcome = "connect" ->
                 /\ socks' = socks + 1
                 /\ Raise(Exc("OSError", -1))
                 /\ Did(<<"http_post_start", "socket">>)
                 /\ UNCHANGED <<sock, req, sess, tags>>
    /\ UNCHANGED <<mode, person_id, collected, cls_counter, pending, idle_ms,
                 lift_ms, tx, rx, sensor, dl, sent, sink, failed, res,
                 cycles, unflushed, codec>>

\* the sensor starts a download when the bytes it got parse as that command
IsDownloadCommand(bytes) ==
    LET p == ReadPacket(bytes) IN
    /\ p.err = "none"
    /\ p.ptype = PACKET_COMMAND
    /\ p.payload = <<CMD_DOWNLOADIMAGE>>

\* stream_upimage_to_http, line 138: the download command is written
StreamCmd ==
    /\ pc = "stream_cmd"
    /\ tx' = WritePacket(SENSOR_ADDRESS, PACKET_COMMAND, <<CMD_DOWNLOADIMAGE>>)
    /\ sensor' = IF IsDownloadCommand(tx') THEN "ack" ELSE "idle"
    /\ dl' = NoDl
    /\ pc' = "stream_ack"
    /\ Did(<<"download">>)
    /\ UNCHANGED <<mode, person_id, collected, cls_counter, pending, idle_ms,
                 lift_ms, sock, socks, req, rx, sent, sink, exc, failed, res,
                 cycles, unflushed, sess, tags, codec>>

\* as lines 139-143, testing the packet type only and not the confirmation code
StreamAck_IgnoresStatus ==
    /\ pc = "stream_ack"
    /\ LET p == ReadPacket(rx) IN
       /\ rx' = p.rest
       /\ Did(<<"read">>)
       /\ IF p.err # "none"
          THEN Raise(Exc(p.err, -1)) /\ sent' = sent
          ELSE IF p.ptype # PACKET_ACK
          THEN /\ Raise(Exc("UpImage NACK code=", IF p.payload # <<>> THEN p.payload[1] ELSE -1))
               /\ sent' = sent
          ELSE /\ sent' = 0
               /\ pc' = "stream_data"
               /\ exc' = exc
    /\ UNCHANGED <<mode, person_id, collected, cls_counter, pending, idle_ms,
                 lift_ms, sock, socks, req, tx, sensor, dl, sink, failed,
                 res, cycles, unflushed, sess, tags, codec>>

\* lines 139-143: the first reply.  _read_packet returns or raises on the
\* bytes received so far; when they do not hold a whole packet it times out.
StreamAck ==
    /\ pc = "stream_ack"
    /\ LET p == ReadPacket(rx) IN
       /\ rx' = p.rest
       /\ Did(<<"read">>)
       /\ IF p.err # "none"
          THEN Raise(Exc(p.err, -1)) /\ sent' = sent
          ELSE IF p.ptype # PACKET_ACK \/ p.payload = <<>> \/ p.payload[1] # 0
          THEN /\ Raise(Exc("UpImage NACK code=", IF p.payload # <<>> THEN p.payload[1] ELSE -1))
               /\ sent' = sent
          ELSE /\ sent' = 0
               /\ pc' = "stream_data"
               /\ exc' = exc
    /\ UNCHANGED <<mode, person_id, collected, cls_counter, pending, idle_ms,
                 lift_ms, sock, socks, req, tx, sensor, dl, sink, failed,
                 res, cycles, unflushed, sess, tags, codec>>

\* as lines 144-152, the chunk put in front of the body sent so far
StreamData_Prepends ==
    /\ pc = "stream_data"
    /\ LET p == ReadPacket(rx) IN
       /\ rx' = p.rest
       /\ IF p.err # "none"
          THEN /\ Raise(Exc(p.err, -1))
               /\ Did(<<"read">>)
               /\ UNCHANGED <<sent, sink>>
          ELSE IF p.ptype \notin {PACKET_DATA, PACKET_DATA_END}
          THEN /\ Raise(Exc("unexpected packet ", p.ptype))
               /\ Did(<<"read">>)
               /\ UNCHANGED <<sent, sink>>
          ELSE /\ Did(<<"read", "send">>)
               /\ \E accepted \in BOOLEAN :
                     IF accepted
                     THEN /\ sink' = p.payload \o sink
                          /\ sent' = sent + Len(p.payload)
                          /\ pc' = IF p.ptype = PACKET_DATA_END THEN "finish" ELSE pc
                          /\ exc' = exc
                     ELSE /\ Raise(Exc("OSError", -1))
                          /\ UNCHANGED <<sent, sink>>
    /\ UNCHANGED <<mode, person_id, collected, cls_counter, pending, idle_ms,
                 lift_ms, sock, socks, req, tx, sensor, dl, failed, res,
                 cycles, unflushed, sess, tags, codec>>

\* lines 144-152: one iteration of the while True; sock.send may raise
StreamData ==
    /\ pc = "stream_data"
    /\ LET p == ReadPacket(rx) IN
       /\ rx' = p.rest
       /\ IF p.err # "none"
          THEN /\ Raise(Exc(p.err, -1))
               /\ Did(<<"read">>)
               /\ UNCHANGED <<sent, sink>>
          ELSE IF p.ptype \notin {PACKET_DATA, PACKET_DATA_END}
          THEN /\ Raise(Exc("unexpected packet ", p.ptype))
               /\ Did(<<"read">>)
               /\ UNCHANGED <<sent, sink>>
          ELSE /\ Did(<<"read", "send">>)
               /\ \E accepted \in BOOLEAN :
                     IF accepted
                     THEN /\ sink' = sink \o p.payload
                          /\ sent' = sent + Len(p.payload)
                          /\ pc' = IF p.ptype = PACKET_DATA_END THEN "finish" ELSE pc
                          /\ exc' = exc
                     ELSE /\ Raise(Exc("OSError", -1))
                          /\ UNCHANGED <<sent, sink>>
    /\ UNCHANGED <<mode, person_id, collected, cls_counter, pending, idle_ms,
                 lift_ms, sock, socks, req, tx, sensor, dl, failed, res,
                 cycles, unflushed, sess, tags, codec>>

\* the transfer is over: the locals of stream_upimage_to_http are gone, the
\* request body is complete and the sensor answers nothing more
EndTransfer ==
    /\ sensor' = "idle"
    /\ dl' = NoDl
    /\ sent' = 0
    /\ sink' = <<>>

\* as the end of the try block, with collected += 1 placed there the way cls_counter += 1 is
HttpPostFinish_Counts ==
    /\ pc = "finish"
    /\ socks' = socks - 1
    /\ Did(<<"recv", "close">>)
    /\ cls_counter' = IF mode = "cls" THEN cls_counter + 1 ELSE cls_counter
    /\ sess' = [sess EXCEPT !.nok = @ + 1]
    /\ collected' = IF mode = "detect" THEN collected + 1 ELSE collected
    /\ tags' = IF mode = "cls"
               THEN [tags EXCEPT !.ok = Append(@, req.headers["X-Filename"][2]),
                                 !.lastOk = TRUE]
               ELSE tags
    /\ EndTransfer
    /\ pc' = "lift"
    /\ lift_ms' = 0
    /\ UNCHANGED <<mode, person_id, pending, idle_ms, sock, req, tx, rx, exc,
                 failed, res, cycles, unflushed, codec>>

\* http_post_finish(sock) on the success path, and what follows it inside
\* the try block (cls_mode: cls_counter += 1)
HttpPostFinish ==
    /\ pc = "finish"
    /\ socks' = socks - 1
    /\ Did(<<"recv", "close">>)
    /\ cls_counter' = IF mode = "cls" THEN cls_counter + 1 ELSE cls_counter
    /\ sess' = [sess EXCEPT !.nok = @ + 1]
    /\ tags' = IF mode = "cls"
               THEN [tags EXCEPT !.ok = Append(@, req.headers["X-Filename"][2]),
                                 !.lastOk = TRUE]
               ELSE tags
    /\ EndTransfer
    /\ pc' = "lift"
    /\ lift_ms' = 0
    /\ UNCHANGED <<mode, person_id, collected, pending, idle_ms, sock, req, tx,
                 rx, exc, failed, res, cycles, unflushed, codec>>

\* as the except clause, with the cls_counter += 1 of the try block run on the failure path too
Except_CountsCls ==
    /\ pc = "except"
    /\ IF sock # "None"
       THEN socks' = socks - 1 /\ Did(<<"recv", "close">>)
       ELSE socks' = socks /\ Did(<<>>)
    /\ exc' = NoExc
    /\ cls_counter' = IF mode = "cls" THEN cls_counter + 1 ELSE cls_counter
    /\ failed' = TRUE
    /\ unflushed' = TRUE
    /\ sess' = [sess EXCEPT !.anyfail = TRUE]
    /\ EndTransfer
    /\ pc' = "lift"
    /\ lift_ms' = 0
    /\ UNCHANGED <<mode, person_id, collected, pending, idle_ms, sock, req, tx,
                 rx, res, cycles, tags, codec>>

\* except Exception as e: if sock: http_post_finish(sock); the failed cycle
\* then goes on to wait_for_lift (both modes)
Except ==
    /\ pc = "except"
    /\ IF sock # "None"
       THEN socks' = socks - 1 /\ Did(<<"recv", "close">>)
       ELSE socks' = socks /\ Did(<<>>)
    /\ exc' = NoExc
    /\ failed' = TRUE
    /\ unflushed' = TRUE
    /\ sess' = [sess EXCEPT !.anyfail = TRUE]
    /\ EndTransfer
    /\ pc' = "lift"
    /\ lift_ms' = 0
    /\ UNCHANGED <<mode, person_id, collected, cls_counter, pending, idle_ms,
                 sock, req, tx, rx, res, cycles, tags, codec>>

\* as the end of a cycle, with collected += 1 also on the failure path
Checkpoint_CountsFailures ==
    /\ pc = "checkpoint"
    /\ LET r == ReadCmdNb(pending)
           n == IF mode = "detect" THEN collected + 1 ELSE collected
       IN
       /\ pending' = r.pending
       /\ lastCmd' = r.c
       /\ evt' = <<"poll">>
       /\ IF r.c \in Abort
          THEN ModeReturn(r.c) /\ cycEvts' = cycEvts
          ELSE IF mode = "detect" /\ ~(n < SAMPLES_PER_PERSON)
          THEN ModeReturn("None") /\ cycEvts' = cycEvts
          ELSE /\ BeginCycle
               /\ collected' = n
               /\ UNCHANGED <<res, mode, person_id>>
    /\ UNCHANGED <<cls_counter, socks, req, tx, rx, sensor, dl, sent, sink,
                 cycles, unflushed, sess, tags, codec>>

\* as the end of a cycle, the loop test being collected <= SAMPLES_PER_PERSON
Checkpoint_OneMore ==
    /\ pc = "checkpoint"
    /\ LET r == ReadCmdNb(pending)
           n == IF mode = "detect" /\ ~failed THEN collected + 1 ELSE collected
       IN
       /\ pending' = r.pending
       /\ lastCmd' = r.c
       /\ evt' = <<"poll">>
       /\ IF r.c \in Abort
          THEN ModeReturn(r.c) /\ cycEvts' = cycEvts
          ELSE IF mode = "detect" /\ ~(n <= SAMPLES_PER_PERSON)
          THEN ModeReturn("None") /\ cycEvts' = cycEvts
          ELSE /\ BeginCycle
               /\ collected' = n
               /\ UNCHANGED <<res, mode, person_id>>
    /\ UNCHANGED <<cls_counter, socks, req, tx, rx, sensor, dl, sent, sink,
                 cycles, unflushed, sess, tags, codec>>

\* the end of a cycle: collected += 1 on the success path of detect_mode,
\* c = read_cmd_nb() and the return on an abort command, otherwise the next
\* test of the loop condition
Checkpoint ==
    /\ pc = "checkpoint"
    /\ LET r == ReadCmdNb(pending)
           n == IF mode = "detect" /\ ~failed THEN collected + 1 ELSE collected
       IN
       /\ pending' = r.pending
       /\ lastCmd' = r.c
       /\ evt' = <<"poll">>
       /\ IF r.c \in Abort
          THEN ModeReturn(r.c) /\ cycEvts' = cycEvts
          ELSE IF mode = "detect" /\ ~(n < SAMPLES_PER_PERSON)
          THEN ModeReturn("None") /\ cycEvts' = cycEvts
          ELSE /\ BeginCycle
               /\ collected' = n
               /\ UNCHANGED <<res, mode, person_id>>
    /\ UNCHANGED <<cls_counter, socks, req, tx, rx, sensor, dl, sent, sink,
                 cycles, unflushed, sess, tags, codec>>

----------------------------------------------------------------------------
Next ==
    \/ TypeLine
    \/ SensorSend
    \/ MainInput
    \/ AskPersonId
    \/ EnsureIdleStep
    \/ WaitFingerStep
    \/ PreFlush
    \/ HttpPostStart
    \/ StreamCmd
    \/ StreamAck
    \/ StreamData
    \/ HttpPostFinish
    \/ Except
    \/ WaitLiftStep
    \/ PostFlush
    \/ Checkpoint

Spec == Init /\ [][Next]_vars

----------------------------------------------------------------------------
(* The streaming bridge against an arbitrary sensor.  The specification    *)
(* starts where cls_mode calls stream_upimage_to_http for its first        *)
(* placement, and the sensor may answer the command with any frames, well  *)
(* formed or not.                                                          *)

StreamInit ==
    /\ pc = "stream_cmd"
    /\ mode = "cls"
    /\ person_id = -1
    /\ collected = 0
    /\ cls_counter = 1
    /\ pending = NoLine
    /\ idle_ms = -1
    /\ lift_ms = 0
    /\ sock = "socket"
    /\ socks = 1
    /\ req = HttpRequest(PACKED_LEN, ClsHeaders(1))
    /\ tx = <<>>
    /\ rx = <<>>
    /\ sensor = "idle"
    /\ dl = NoDl
    /\ sent = 0
    /\ sink = <<>>
    /\ exc = NoExc
    /\ failed = FALSE
    /\ res = "None"
    /\ lastCmd = "None"
    /\ cycles = 1
    /\ evt = <<"http_post_start", "socket", "connect", "open">>
    /\ cycEvts = {"socket", "open"}
    /\ trail = <<"probe-", "flush", "socket", "open">>
    /\ unflushed = FALSE
    /\ sess = [NewSess("cls") EXCEPT !.nreq = 1]
    /\ tags = [NoTags EXCEPT !.last = 1]
    /\ codec = CodecOff

FrameTypes == {PACKET_COMMAND, PACKET_ACK, PACKET_DATA, PACKET_DATA_END}
FramePayloads == {<<>>, <<0>>, <<1, 2>>}
Damage == {"none", "checksum", "marker"}

\* one bit of a byte inverted
FlipBit(b, k) == IF (b \div (2 ^ k)) % 2 = 1 THEN b - 2 ^ k ELSE b + 2 ^ k

\* bit k (0..15) of the trailing 16-bit checksum of a frame inverted
FlipChecksumBit(w, k) ==
    IF k < 8 THEN [w EXCEPT ![Len(w)] = FlipBit(@, k)]
    ELSE [w EXCEPT ![Len(w) - 1] = FlipBit(@, k - 8)]

\* the bytes of a frame as they arrive, damaged on the line or not
FrameBytes(t, p, d) ==
    LET w == WritePacket(SENSOR_ADDRESS, t, p) IN
    CASE d = "none"     -> w
      [] d = "checksum" -> FlipChecksumBit(w, 0)
      [] d = "marker"   -> [w EXCEPT ![2] = 0]

SensorSendAny ==
    /\ pc \in {"stream_ack", "stream_data", "finish"}
    /\ sensor # "idle"
    /\ dl.n < MaxFrames
    /\ ~PacketReady(rx)
    /\ \E t \in FrameTypes, p \in FramePayloads, d \in Damage :
          /\ rx' = rx \o FrameBytes(t, p, d)
          /\ dl' = DlAfter(dl, [ptype |-> t, payload |-> p, valid |-> d = "none"])
    /\ UNCHANGED <<pc, mode, person_id, collected, cls_counter, pending,
                 idle_ms, lift_ms, sock, socks, req, tx, sensor, sent, sink,
                 exc, failed, res, lastCmd, cycles, evt, cycEvts, trail,
                 unflushed, sess, tags, codec>>

NextStream ==
    \/ StreamCmd
    \/ SensorSendAny
    \/ StreamAck
    \/ StreamData

SpecStream == StreamInit /\ [][NextStream]_vars

----------------------------------------------------------------------------
(* The codec on its own: a packet is written, possibly damaged in its      *)
(* checksum bytes, and read back.                                          *)

Addresses == {SENSOR_ADDRESS, <<0, 0>>, <<258, 772>>}
PTypes == {PACKET_COMMAND, PACKET_ACK, PACKET_DATA, PACKET_DATA_END, 255}
PayloadBytes == {0, 1, 255}
\* long enough for a length above 255 and a byte sum above 16 bits
LongPayload == [i \in 1..260 |-> 255]
CodecPayloads ==
    UNION {[1..n -> PayloadBytes] : n \in 0..MaxPayloadLen} \cup {LongPayload}

CodecInit ==
    /\ OrchInit
    /\ \E a \in Addresses, t \in PTypes, p \in CodecPayloads :
          codec = [phase |-> "in", address |-> a, ptype |-> t, payload |-> p,
                   wire |-> <<>>, out |-> Failure("none", <<>>)]

\* _write_packet(uart, address, ptype, payload_bytes)
CodecWrite ==
    /\ codec.phase = "in"
    /\ codec' = [codec EXCEPT !.phase = "written",
                              !.wire = WritePacket(codec.address, codec.ptype, codec.payload)]
    /\ UNCHANGED orchVars

\* one bit of the checksum bytes is inverted on the line
CodecFlip ==
    /\ codec.phase = "written"
    /\ \E k \in 0..15 :
          codec' = [codec EXCEPT !.phase = "flipped", !.wire = FlipChecksumBit(@, k)]
    /\ UNCHANGED orchVars

\* _read_packet(uart) on the bytes on the line
CodecRead ==
    /\ codec.phase \in {"written", "flipped"}
    /\ codec' = [codec EXCEPT !.phase = IF @ = "written" THEN "read" ELSE "read_flipped",
                              !.out = ReadPacket(codec.wire)]
    /\ UNCHANGED orchVars

\* bytes arrive that no _write_packet produced: a header with the start
\* code, any type, and a length field that counts exactly the body bytes
\* that follow it (the bytes of codec.payload, with no checksum added)
CodecForge ==
    /\ codec.phase = "in"
    /\ codec' = [codec EXCEPT !.phase = "forged",
                              !.wire = Be16(STARTCODE) \o ToBytes4(codec.address)
                                       \o <<codec.ptype>> \o Be16(Len(codec.payload))
                                       \o codec.payload]
    /\ UNCHANGED orchVars

\* _read_packet(uart) on such bytes
CodecReadForged ==
    /\ codec.phase = "forged"
    /\ codec' = [codec EXCEPT !.phase = "read_forged", !.out = ReadPacket(codec.wire)]
    /\ UNCHANGED orchVars

NextCodec ==
    \/ CodecWrite
    \/ CodecFlip
    \/ CodecRead
    \/ CodecForge
    \/ CodecReadForged

SpecCodec == CodecInit /\ [][NextCodec]_vars

----------------------------------------------------------------------------
(* Properties *)

Has(events, e) == \E i \in 1..Len(events) : events[i] = e

\* the step writes a command to the sensor: a presence probe or the download
SensorCommandIn(events) ==
    Has(events, "probe+") \/ Has(events, "probe-") \/ Has(events, "download")

InTransfer == {"stream_cmd", "stream_ack", "stream_data", "finish"}
AfterTransfer == {"lift", "post_idle", "post_flush", "checkpoint"}

\* a step of the program, as opposed to one of the console or the sensor
ProgramStep == ~(TypeLine \/ SensorSend)

\* C1: once a transfer has failed, no step of the program writes a command
\* (presence probe or image download) to the sensor until flush_uart has run.
C1_FlushBeforeNextCommand ==
    [][(unflushed /\ ProgramStep) => ~SensorCommandIn(evt')]_vars

\* a transfer failed, frames of the download are still unread on the UART,
\* and wait_for_lift has already written its probe
C1_Witness ==
    /\ unflushed
    /\ rx # <<>>
    /\ pc = "post_idle"
    /\ evt = <<"probe-">>

\* C2: in detect mode collected equals the number of transfers completed in
\* the session once their cycle has ended (it lags by one between the end
\* of a successful transfer and the end of its cycle), a failed cycle leaves
\* it as it was, and every request carries the sample index that follows
\* the completed transfers, so the request after a failure repeats the index.
C2_DetectCount ==
    mode = "detect" =>
        /\ collected = sess.nok - (IF pc \in AfterTransfer /\ ~failed THEN 1 ELSE 0)
        /\ pc \in InTransfer => req.headers["X-Filename"] = <<person_id, sess.nok + 1>>

C2_Witness ==
    /\ mode = "detect"
    /\ pc = "stream_cmd"
    /\ sess.anyfail
    /\ sess.nok = 2
    /\ collected = 2
    /\ req.headers["X-Filename"] = <<7, 3>>

\* C3: when stream_upimage_to_http returns, the sensor had sent a well-formed
\* ACK with code 0 and then well-formed DATA frames closed by a DATA_END,
\* the body sent is exactly their payloads in order (nothing of the ACK,
\* nothing after the DATA_END) and the value returned is its length; and
\* the bridge raises a protocol error only on frames that are not such a
\* sequence.
C3_StreamConcat ==
    /\ pc = "finish" =>
          /\ dl.proto = "ended"
          /\ sink = dl.image
          /\ sent = Len(dl.image)
    /\ (pc = "except" /\ exc.msg \notin {"OSError", "timeout header", "timeout body"}) =>
          dl.proto = "broken"

C3_Witness ==
    /\ pc = "finish"
    /\ dl.n = 4
    /\ sink = <<0, 1, 2>>
    /\ sent = 3
    /\ rx # <<>>

\* C4: a packet written by _write_packet carries the length len(payload)+2
\* and is read back by _read_packet as the same type and payload, with no
\* byte left over.
C4_RoundTrip ==
    /\ codec.phase = "written" =>
          /\ Len(codec.wire) = 11 + Len(codec.payload)
          /\ codec.wire[8] * 256 + codec.wire[9] = Len(codec.payload) + 2
    /\ codec.phase = "read" =>
          codec.out = [err |-> "none", ptype |-> codec.ptype,
                       payload |-> codec.payload, rest |-> <<>>]

C4_Witness ==
    /\ codec.phase = "read"
    /\ codec.payload = LongPayload
    /\ codec.out.err = "none"
    /\ Len(codec.out.payload) = 260

\* C5: a frame with one bit of its two checksum bytes inverted is rejected
\* by _read_packet with "bad checksum", and no payload is returned.
C5_ChecksumFlipDetected ==
    codec.phase = "read_flipped" =>
        /\ codec.out.err = "bad checksum"
        /\ codec.out.payload = <<>>

C5_Witness ==
    /\ codec.phase = "read_flipped"
    /\ codec.payload = <<1, 1>>
    /\ codec.wire[Len(codec.wire) - 1] = 128
    /\ codec.out.err = "bad checksum"

\* the first frame the sensor sent is a well-formed ACK with a non-zero code
FirstIsNack ==
    /\ dl.first.valid
    /\ dl.first.ptype = PACKET_ACK
    /\ dl.first.payload # <<>>
    /\ dl.first.payload[1] # 0

\* C6: once the bridge has read a first reply that is an ACK with a non-zero
\* confirmation code, it has raised the NACK exception carrying that code
\* and the request body is empty.
C6_NackFails ==
    (FirstIsNack /\ pc \notin {"stream_cmd", "stream_ack"}) =>
        /\ pc = "except"
        /\ exc = Exc("UpImage NACK code=", dl.first.payload[1])
        /\ sink = <<>>
        /\ sent = 0

C6_Witness ==
    /\ FirstIsNack
    /\ pc = "except"
    /\ exc.code = 1
    /\ sink = <<>>

\* C7: while a request is open, a cls_mode request has no X-Person-Id header
\* and X-Mode cls, and a detect_mode request has X-Person-Id equal to the
\* session's person_id and X-Mode detect.
C7_SubjectHeader ==
    pc \in InTransfer =>
        IF mode = "cls"
        THEN /\ "X-Person-Id" \notin DOMAIN req.headers
             /\ req.headers["X-Mode"] = <<"cls">>
        ELSE /\ mode = "detect"
             /\ "X-Person-Id" \in DOMAIN req.headers
             /\ req.headers["X-Person-Id"] = <<person_id>>
             /\ req.headers["X-Mode"] = <<"detect">>

C7_Witness ==
    /\ mode = "cls"
    /\ pc = "stream_cmd"
    /\ sess.anyfail
    /\ sess.nreq = 2
    /\ DOMAIN req.headers = {"X-Format", "X-Width", "X-Height", "X-Mode", "X-Filename"}

\* C8: a step of wait_for_finger that samples stop, quit or exit returns
\* that command from the mode to the command loop, and since that
\* wait_for_finger began no socket was created, no request opened and no
\* download command written.
C8_AbortInWait ==
    [][(pc = "wff_poll" /\ ProgramStep /\ lastCmd' \in Abort) =>
          /\ res' = lastCmd'
          /\ mode' = "none"
          /\ pc' = (IF lastCmd' = "stop" THEN "main" ELSE "halt")
          /\ cycEvts' \cap {"socket", "open", "download"} = {}
          /\ socks' = socks
          /\ tx' = tx
          /\ req' = req]_vars

C8_Witness ==
    /\ pc = "main"
    /\ res = "stop"
    /\ lastCmd = "stop"
    /\ evt = <<"probe-", "poll">>
    /\ sess.mode = "detect"
    /\ sess.nok = 1
    /\ cycEvts = {}

\* C9: in a detect session without a failed cycle the k-th request has the
\* filename (person_id, k), the subject header person_id and Content-Length
\* (W*H)/2, no more than SAMPLES_PER_PERSON requests are opened, and the
\* mode returns None exactly after SAMPLES_PER_PERSON of them; a return
\* before that carries the abort command.
C9_DetectRun ==
    (sess.mode = "detect" /\ ~sess.anyfail) =>
        /\ sess.nreq <= SAMPLES_PER_PERSON
        /\ (mode = "detect" /\ pc \in InTransfer) =>
              /\ req.clen = (W * H) \div 2
              /\ req.headers["X-Filename"] = <<person_id, sess.nreq>>
              /\ req.headers["X-Person-Id"] = <<person_id>>
        /\ (mode = "detect" /\ pc \notin {"ask_pid", "checkpoint"} \cup AfterTransfer) =>
              sess.nok < SAMPLES_PER_PERSON
        /\ (mode = "none" /\ res = "None") =>
              /\ sess.nreq = SAMPLES_PER_PERSON
              /\ sess.nok = SAMPLES_PER_PERSON
        /\ (mode = "none" /\ sess.nok < SAMPLES_PER_PERSON) => res \in Abort

C9_Witness ==
    /\ sess.mode = "detect"
    /\ ~sess.anyfail
    /\ mode = "none"
    /\ pc = "main"
    /\ res = "None"
    /\ sess.nreq = 3
    /\ req.headers["X-Filename"] = <<7, 3>>
    /\ req.clen = 36864
    /\ cycles < MaxCycles

\* a request has been opened in this cycle and the flush that ends the
\* cycle has not run yet
InFlight == "open" \in cycEvts /\ "end_flush" \notin cycEvts

\* C10: from the opening of the request to the end of the cycle's
\* wait_for_lift, ensure_idle and flush, no step calls read_cmd_nb, a line
\* waiting on the console stays there, and the mode does not return.
C10_NoPollInFlight ==
    [][(InFlight /\ ProgramStep) =>
          /\ ~Has(evt', "poll")
          /\ lastCmd' = "None"
          /\ pending # NoLine => pending' = pending
          /\ mode' = mode]_vars

C10_Witness ==
    /\ InFlight
    /\ pc = "post_flush"
    /\ pending = "Stop "
    /\ ~failed

\* C11: a step that writes the image-download command comes after an absent
\* probe of its own cycle, so after the previous download command, and no
\* download command was written earlier in the cycle: no transfer is open.
C11_LiftBarrier ==
    [][(ProgramStep /\ Has(evt', "download")) =>
          /\ Has(trail, "probe-")
          /\ ~Has(trail, "download")
          /\ "download" \notin cycEvts
          /\ sensor = "idle"
          /\ dl = NoDl
          /\ sink = <<>>]_vars

C11_Witness ==
    /\ pc = "stream_ack"
    /\ sess.nreq = 2
    /\ sess.nok = 1
    /\ cycles = 2
    /\ trail = <<"probe-", "flush", "socket", "open", "download">>

----------------------------------------------------------------------------
(* The program keeps running: its single thread takes its next step         *)
(* whenever it has one.  The console and the sensor owe nothing.            *)

Program ==
    \/ MainInput
    \/ AskPersonId
    \/ EnsureIdleStep
    \/ WaitFingerStep
    \/ PreFlush
    \/ HttpPostStart
    \/ StreamCmd
    \/ StreamAck
    \/ StreamData
    \/ HttpPostFinish
    \/ Except
    \/ WaitLiftStep
    \/ PostFlush
    \/ Checkpoint

SpecLive == Spec /\ WF_vars(Program)

\* C12: once a transfer has ended and the mode waits for the lift, the
\* read_cmd_nb checkpoint that ends the cycle is reached, whatever the
\* presence probes report.
C12_WaitsBounded ==
    (pc = "lift") ~> (pc = "checkpoint")

\* wait_for_lift has timed out with the finger down and ensure_idle probes on
C12_Witness ==
    /\ pc = "post_idle"
    /\ ~failed
    /\ trail[Len(trail)] = "close"
    /\ evt = <<"probe+">>
    /\ idle_ms = -1

Probes(events) == Has(events, "probe+") \/ Has(events, "probe-")

\* C13: every step of wait_for_finger, its opening ensure_idle included, that
\* probes the sensor and does not end the wait with a finger found also
\* samples the console with read_cmd_nb.
C13_PollEveryProbe ==
    [][(/\ ProgramStep
        /\ pc \in {"wff_idle", "wff_poll"}
        /\ Probes(evt')
        /\ pc' # "pre_flush") => Has(evt', "poll")]_vars

\* stop is waiting on the console while the ensure_idle of wait_for_finger
\* goes on probing without reading it
C13_Witness ==
    /\ pc = "wff_idle"
    /\ pending = "Stop "
    /\ evt = <<"probe+">>
    /\ lastCmd = "None"
    /\ cycles = 1

\* the first frame the sensor sent is well formed and not an ACK
FirstIsOtherType ==
    /\ dl.first.valid
    /\ dl.first.ptype # PACKET_ACK

\* C14: once the bridge has read a first reply of another type than ACK it
\* has raised the unexpected-packet exception, not the NACK exception that
\* an ACK with a non-zero code raises, and the request body is empty.
C14_UnexpectedType ==
    (FirstIsOtherType /\ pc \notin {"stream_cmd", "stream_ack"}) =>
        /\ pc = "except"
        /\ exc.msg = "unexpected packet "
        /\ exc.msg # "UpImage NACK code="
        /\ sink = <<>>
        /\ sent = 0

\* a DATA frame as first reply raised what an ACK with code 1 raises
C14_Witness ==
    /\ FirstIsOtherType
    /\ dl.first.ptype = PACKET_DATA
    /\ pc = "except"
    /\ exc = Exc("UpImage NACK code=", 1)
    /\ sink = <<>>

\* C15: a failed cycle changes neither cls_counter nor collected and goes on
\* to wait_for_lift, ensure_idle, flush_uart and the read_cmd_nb checkpoint;
\* the request after it carries the same test_img tag; cls_mode returns only
\* an abort command it has just read, and detect_mode returns either such a
\* command or None when collected reaches SAMPLES_PER_PERSON.
C15_FailureKeepsLoop ==
    /\ [](mode = "cls" /\ pc \in InTransfer =>
              req.headers["X-Filename"] = <<"test_img", cls_counter>>)
    /\ [][ProgramStep =>
            /\ cls_counter' # cls_counter =>
                  (pc = "finish" /\ mode = "cls" /\ cls_counter' = cls_counter + 1)
            /\ pc = "except" =>
                  (pc' = "lift" /\ failed' /\ mode' = mode /\ collected' = collected)
            /\ (failed /\ pc = "lift") => pc' \in {"lift", "post_idle"}
            /\ (failed /\ pc = "post_idle") => pc' \in {"post_idle", "post_flush"}
            /\ (failed /\ pc = "post_flush") => pc' = "checkpoint"
            /\ (failed /\ mode' = mode) => collected' = collected
            /\ (failed /\ mode' # mode) => (pc = "checkpoint" /\ lastCmd' \in Abort)
            /\ (mode = "cls" /\ mode' # mode) =>
                  (lastCmd' \in Abort /\ res' = lastCmd')
            /\ (mode = "detect" /\ mode' # mode) =>
                  \/ lastCmd' \in Abort /\ res' = lastCmd'
                  \/ /\ res' = "None"
                     /\ pc = "checkpoint"
                     /\ ~failed
                     /\ collected + 1 = SAMPLES_PER_PERSON]_vars

\* the request after a failed placement of cls_mode repeats the tag
C15_Witness ==
    /\ mode = "cls"
    /\ pc = "stream_cmd"
    /\ cls_counter = 2
    /\ sess.nok = 1
    /\ sess.nreq = 3
    /\ sess.anyfail
    /\ req.headers["X-Filename"] = <<"test_img", 2>>

IsPrefix(s, t) == Len(s) <= Len(t) /\ SubSeq(t, 1, Len(s)) = s

\* C16: the body sent is at all times made of payloads of well-formed frames
\* only, in order (a frame with a wrong start code or checksum, and any
\* frame after it, adds nothing); and when _read_packet rejects a frame the
\* transfer is over with exactly the payloads of the frames before it sent.
C16_OnlyValidFrames ==
    /\ IsPrefix(sink, dl.image)
    /\ sent = Len(sink)
    /\ (pc = "except" /\ exc.msg \in {"bad startcode", "bad checksum"}) =>
          /\ dl.proto = "broken"
          /\ sink = dl.image

C16_Witness ==
    /\ pc = "except"
    /\ exc.msg = "bad checksum"
    /\ dl.n = 3
    /\ sink = <<1, 2>>
    /\ dl.image = <<1, 2>>

\* C17: at most one socket is open at any time, and none is open outside
\* the try block of a cycle: every socket created is closed before the
\* cycle's wait_for_lift begins.
C17_SocketsClosed ==
    /\ socks <= 1
    /\ pc \notin (InTransfer \cup {"except"}) => socks = 0

\* wait_for_lift runs with the socket of a failed http_post_start still open
C17_Witness ==
    /\ pc = "lift"
    /\ failed
    /\ sock = "None"
    /\ socks = 1
    /\ Has(trail, "socket")
    /\ ~Has(trail, "close")

\* the calls of a cycle whose transfer succeeded, up to its closing flush
SuccessTrail ==
    <<"probe-", "flush", "socket", "open", "download", "close", "probe-", "flush">>

\* C18: in detect_mode collected stays within 0..SAMPLES_PER_PERSON, and the
\* step that counts a capture (the end of a cycle that did not fail) comes
\* after, in this order within the cycle, the download and the close of the
\* request by http_post_finish, an absent probe that ends the waits for the
\* lift, and flush_uart; no other step of the mode changes collected, and
\* the change is +1.
C18_CountAfterLift ==
    /\ [](mode = "detect" =>
              /\ collected \in 0..SAMPLES_PER_PERSON
              /\ (pc = "checkpoint" /\ ~failed) =>
                    (trail = SuccessTrail /\ collected + 1 <= SAMPLES_PER_PERSON))
    /\ [][(ProgramStep /\ mode = "detect" /\ mode' = "detect" /\ collected' # collected) =>
            /\ collected' = collected + 1
            /\ pc = "checkpoint"
            /\ ~failed
            /\ trail = SuccessTrail]_vars

\* the second capture has just been counted
C18_Witness ==
    /\ mode = "detect"
    /\ pc = "wff_idle"
    /\ collected = 2
    /\ sess.nok = 2
    /\ evt = <<"poll">>
    /\ trail = <<>>

\* the checksum _read_packet computes for a body of the given header
BodyChecksum(ptype, body) ==
    (ptype + (Len(body) \div 256) + (Len(body) % 256) + Sum(DropLast2(body))) % 65536

\* C19: for a header with the start code and any length field, followed by
\* that many body bytes, _read_packet either returns the type and a payload
\* of length - 2 bytes whose checksum matches, or raises bad checksum;
\* also when the length is 0 or 1.
C19_ShortLength ==
    codec.phase = "read_forged" =>
        LET body == codec.payload IN
        \/ /\ codec.out.err = "none"
           /\ codec.out.ptype = codec.ptype
           /\ Len(codec.out.payload) = Len(body) - 2
           /\ codec.out.payload = DropLast2(body)
           /\ body[Len(body) - 1] * 256 + body[Len(body)] = BodyChecksum(codec.ptype, body)
        \/ codec.out.err = "bad checksum"

\* a length field of 1 with its one body byte: rest[-2] does not exist
C19_Witness ==
    /\ codec.phase = "read_forged"
    /\ codec.payload = <<255>>
    /\ codec.out.err = "IndexError"

\* a length field of 0: nothing is missing, yet a timeout is raised
C19_ZeroLength ==
    /\ codec.phase = "read_forged"
    /\ codec.payload = <<>>
    /\ codec.out.err = "timeout body"

\* a body whose last two bytes are the checksum of its header is accepted
C19_Accepted ==
    /\ codec.phase = "read_forged"
    /\ codec.ptype = 255
    /\ codec.payload = <<1, 1>>
    /\ codec.out.err = "none"
    /\ codec.out.payload = <<>>

\* the numbers 1, 2, ..., n
UpTo(n) == [i \in 1..n |-> i]

\* C20: over the whole run, whatever sessions of either mode it is made of,
\* the cls requests whose transfer succeeded carry test_img_1, test_img_2,
\* ... in order with no gap and no repeat; entering or leaving a mode never
\* changes cls_counter; and a cls request carries the number of the cls
\* request before it only when that one failed, otherwise the next number.
C20_TagsInOrder ==
    /\ [](/\ tags.ok = UpTo(cls_counter - 1)
          /\ (mode = "cls" /\ pc \in InTransfer) =>
                req.headers["X-Filename"] = <<"test_img", tags.last>>)
    /\ [][ProgramStep =>
            /\ mode' # mode => cls_counter' = cls_counter
            /\ (pc = "open" /\ mode = "cls" /\ pc' = "stream_cmd") =>
                  /\ req'.headers["X-Filename"] = <<"test_img", tags'.last>>
                  /\ IF tags.last # 0 /\ ~tags.lastOk
                     THEN tags'.last = tags.last
                     ELSE tags'.last = tags.last + 1]_vars

\* a later cls session goes on with test_img_2: its first success is the
\* second of the run
C20_Witness ==
    /\ mode = "cls"
    /\ pc = "lift"
    /\ ~failed
    /\ sess.nok = 1
    /\ tags.ok = <<1, 2>>

\* a failed request's number is sent again by the next cls request
C20_Resent ==
    /\ mode = "cls"
    /\ pc \in InTransfer
    /\ sess.anyfail
    /\ sess.nreq = 2
    /\ tags = [ok |-> <<>>, last |-> 1, lastOk |-> FALSE]

====
